---- MODULE Spec2Model ----
(***************************************************************************)
(* Model of luigi/contrib/azure_storage.py: the AzureStorageClient adapter *)
(* over the Azure block blob service, its constructor and its path codec,  *)
(* the atomic writer and the target built on it, and the readable file.    *)
(*                                                                         *)
(* Strings are sequences of one-character strings, so that the path codec  *)
(* is computed the way the code computes it.  The remote service is the    *)
(* pair (containers, blobs); blobs is a function from <<container, blob>>  *)
(* keys to contents whose domain is the set of blobs that exist.           *)
(***************************************************************************)
EXTENDS Integers, Sequences, FiniteSets, TLC

\* ---------------------------------------------------------------- bounds
\* longest blob content, in bytes
MaxLen == 1

\* most server-side copies in progress at once
MaxPending == 1

\* most atomic write sessions, and most writes in one session
MaxSessions == 2
MaxWrites == 2

\* longest path the codec is given, beside the paths of the examples
MaxPathLen == 3

\* most chunks the handle delivers, longest chunk (beside the documented one),
\* and most calls of read
MaxChunks == 2
MaxChunkLen == 2
MaxReads == 5

\* most calls of close on the handle under a reader
MaxCloses == 3

\* ---------------------------------------------------------------- strings
a == <<"a">>
b == <<"b">>

\* the logical paths the operations are called with
Paths ==
  { <<"a", "/", "x">>,            \* a/x
    <<"/", "a", "/", "x", "/">>,  \* /a/x/   (same blob as a/x)
    <<"a", "/", "y">>,            \* a/y
    <<"b", "/", "x">>,            \* b/x     (another container)
    <<"a", "/">>,                 \* a/      (root, blob-name '')
    <<"a", "/", "/", "/">>,       \* a///    (root, blob-name '/')
    <<>> }                        \* ''      (not resolvable)

\* the paths the codec is given: every short path, and the documented ones
PathChars == {"a", "b", "/"}
CodecPaths ==
  UNION { [1..n -> PathChars] : n \in 0..MaxPathLen }
  \cup { <<"a", "/", "b", "/", "c">>,            \* a/b/c
         <<"/", "a", "/", "b", "/", "c", "/">> } \* /a/b/c/

\* the (source, destination) pairs copy and move are called with
CopyPairs ==
  { << <<"a", "/", "x">>, <<"a", "/", "y">> >>,            \* a/x -> a/y
    << <<"a", "/", "y">>, <<"a", "/", "x">> >>,            \* a/y -> a/x
    << <<"a", "/", "x">>, <<"/", "a", "/", "x", "/">> >>,  \* a/x -> /a/x/ (itself)
    << <<"a", "/", "x">>, <<"b", "/", "x">> >>,            \* a/x -> b/x (other container)
    << <<"b", "/", "x">>, <<"a", "/", "y">> >>,            \* b/x -> a/y (other container)
    << <<"a", "/", "x">>, <<"a", "/">> >>,                 \* a/x -> a/  (root)
    << <<>>, <<"a", "/", "x">> >> }                        \* ''  -> a/x (not resolvable)

\* the paths blobs are put on before they are copied or moved
SourcePaths ==
  { <<"a", "/", "x">>, <<"/", "a", "/", "x", "/">>, <<"a", "/", "y">>,
    <<"b", "/", "x">> }

\* the path targets are opened for writing on
TargetPaths == { <<"a", "/", "x">> }

\* the statuses the service reports when it accepts a copy
CopyStatuses == {"success", "pending"}

\* the containers that may have been provisioned on the account
ProvisionedContainers == {a, b}

\* blob contents: byte strings over a one-letter alphabet, told apart by length
Contents == UNION { [1..n -> {"z"}] : n \in 0..MaxLen }

\* text: the characters z (one byte in UTF-8) and U+E9 (the two bytes c3 a9)
Chars == {"z", "U+E9"}
Texts == UNION { [1..n -> Chars] : n \in 0..MaxLen }

\* create_blob_from_text encodes the text it is given as UTF-8
RECURSIVE encode(_)
encode(text) ==
  IF text = <<>> THEN <<>>
  ELSE (IF Head(text) = "U+E9" THEN <<"c3", "a9">> ELSE <<Head(text)>>)
         \o encode(Tail(text))

\* get_blob_to_text decodes the blob's bytes as UTF-8, or raises
RECURSIVE decode(_)
decode(bytes) ==
  IF bytes = <<>> THEN [exc |-> "", text |-> <<>>]
  ELSE IF Head(bytes) = "z"
    THEN LET rest == decode(Tail(bytes))
         IN  [exc |-> rest.exc,
              text |-> IF rest.exc = "" THEN <<"z">> \o rest.text ELSE <<>>]
  ELSE IF Len(bytes) >= 2 /\ bytes[1] = "c3" /\ bytes[2] = "a9"
    THEN LET rest == decode(Tail(Tail(bytes)))
         IN  [exc |-> rest.exc,
              text |-> IF rest.exc = "" THEN <<"U+E9">> \o rest.text ELSE <<>>]
  ELSE [exc |-> "UnicodeDecodeError", text |-> <<>>]

\* the local files put uploads: byte strings, UTF-8 or not
Files == Contents \cup { encode(text) : text \in Texts } \cup { <<"c3">> }

\* the paths blobs are uploaded to and downloaded from
IOPaths ==
  { <<"a", "/", "x">>, <<"/", "a", "/", "x", "/">>, <<"a", "/", "y">> }

\* ---------------------------------------------------------------- state
VARIABLES
  containers,   \* the containers that exist on the account
  blobs,        \* <<container, blob>> -> content, for the blobs that exist
  pending,      \* <<container, blob>> -> content, the server-side copies in progress
  call,         \* the client's current or last call: arguments, position, outcome
  sessions,     \* session -> the atomic write session: its state and target path
  tmp_files,    \* session -> content, for the local temp files that exist
  probe,        \* a client under construction, or a path under the codec
  reader        \* a ReadableS3File: its fields, the handle under it, its output

vars == <<containers, blobs, pending, call, sessions, tmp_files, probe, reader>>

\* the local side of the atomic writers
local == <<sessions, tmp_files>>

\* what the calls on a constructed client leave alone
aside == <<probe, reader>>

\* ---------------------------------------------------------------- path codec
\* str.split('/'): the '/'-separated segments, an empty string giving ['']
RECURSIVE split(_)
split(s) ==
  IF \A i \in 1..Len(s) : s[i] # "/"
    THEN <<s>>
    ELSE LET i == CHOOSE j \in 1..Len(s) :
                    s[j] = "/" /\ \A k \in 1..(j - 1) : s[k] # "/"
         IN  <<SubSeq(s, 1, i - 1)>> \o split(SubSeq(s, i + 1, Len(s)))

\* '/'.join(parts)
RECURSIVE join(_)
join(parts) ==
  IF parts = <<>> THEN <<>>
  ELSE IF Len(parts) = 1 THEN parts[1]
  ELSE parts[1] \o <<"/">> \o join(Tail(parts))

\* _path_to_container_and_blob: path[0] and path[-1] raise IndexError on ''
path_to_container_and_blob(path) ==
  IF path = <<>>
    THEN [exc |-> "IndexError", container |-> <<>>, blob_name |-> <<>>]
    ELSE LET p1 == IF path[1] = "/" THEN Tail(path) ELSE path
         IN  IF p1 = <<>>
               THEN [exc |-> "IndexError", container |-> <<>>, blob_name |-> <<>>]
               ELSE LET p2 == IF p1[Len(p1)] = "/"
                                THEN SubSeq(p1, 1, Len(p1) - 1) ELSE p1
                        path_components == split(p2)
                    IN  [exc |-> "",
                         container |-> path_components[1],
                         blob_name |-> join(Tail(path_components))]

is_root(key) == (Len(key) = 0) \/ (key = <<"/">>)

\* the key a path addresses (the codec's answer, whatever it is)
KeyOf(path) ==
  LET cb == path_to_container_and_blob(path) IN <<cb.container, cb.blob_name>>

Resolvable(path) == path_to_container_and_blob(path).exc = ""

\* ---------------------------------------------------------------- the SDK
\* block_blob_service.exists(container)
container_exists(cs, container) == container \in cs

\* block_blob_service.exists(container, blob_name)
blob_exists(bl, container, blob_name) == <<container, blob_name>> \in DOMAIN bl

\* the service stores no blob under an empty name
storable(blob_name) == Len(blob_name) >= 1

\* block_blob_service.create_blob_from_path / create_blob_from_text
create_blob(bl, container, blob_name, content) ==
  [k \in DOMAIN bl \cup {<<container, blob_name>>} |->
     IF k = <<container, blob_name>> THEN content ELSE bl[k]]

\* block_blob_service.get_blob_to_path / get_blob_to_text: the blob's bytes
get_blob(bl, container, blob_name) == bl[<<container, blob_name>>]

\* block_blob_service.delete_blob
delete_blob(bl, container, blob_name) ==
  [k \in DOMAIN bl \ {<<container, blob_name>>} |-> bl[k]]

\* a write to, or the deletion of, a blob ends the copy in progress into it
drop_copy(pd, container, blob_name) ==
  [k \in DOMAIN pd \ {<<container, blob_name>>} |-> pd[k]]

\* block_blob_service.copy_blob into dst_blob, the service reporting `status`:
\* a finished copy holds the source's content, a copy in progress leaves an
\* empty destination blob that the service fills in later
copy_blob(bl, pd, container, dst_blob, src_blob, status) ==
  LET dst == <<container, dst_blob>>
      content == bl[<<container, src_blob>>]
  IN  [blobs |-> create_blob(bl, container, dst_blob,
                             IF status = "success" THEN content ELSE <<>>),
       pending |-> IF status = "success"
                     THEN drop_copy(pd, container, dst_blob)
                     ELSE [k \in DOMAIN pd \cup {dst} |->
                             IF k = dst THEN content ELSE pd[k]],
       progress |-> IF status = "success" THEN Len(content) ELSE 0]

\* ---------------------------------------------------------------- credentials
\* the values a credential may have; "None" is Python's None, "12" a string
\* int() accepts and "int 12" the integer it gives
ArgValues == {"None", "", "arg"}
ConfigSections ==
  { [section |-> FALSE, storage_account |-> "None", storage_account_key |-> "None"] }
  \cup [section : {TRUE}, storage_account : {"None", "cfg", "12"},
        storage_account_key : {"None", "cfg"}]
Environs ==
  [AZURE_STORAGE_ACCOUNT : {"None", "env"},
   AZURE_STORAGE_ACCOUNT_STORAGE_ACCOUNT_KEY : {"None", "env"}]

\* int(v), or v when int raises ValueError
int_or_same(v) == IF v = "12" THEN "int 12" ELSE v

\* _get_azure_storage_config(): the section with its values turned into
\* integers where they can be, an empty dict when there is no section;
\* a key the dict lacks reads as None through options.get
get_azure_storage_config(config) ==
  IF ~config.section
    THEN [storage_account |-> "None", storage_account_key |-> "None"]
    ELSE [storage_account |-> int_or_same(config.storage_account),
          storage_account_key |-> int_or_same(config.storage_account_key)]

\* _get_azure_storage_env_variables(): both variables, or an empty dict when
\* either is unset
get_azure_storage_env_variables(environ) ==
  IF \/ environ.AZURE_STORAGE_ACCOUNT = "None"
     \/ environ.AZURE_STORAGE_ACCOUNT_STORAGE_ACCOUNT_KEY = "None"
    THEN [storage_account |-> "None", storage_account_key |-> "None"]
    ELSE [storage_account |-> environ.AZURE_STORAGE_ACCOUNT,
          storage_account_key |-> environ.AZURE_STORAGE_ACCOUNT_STORAGE_ACCOUNT_KEY]

\* `not v` is true of v
falsy(v) == v \in {"None", ""}

\* a constructor that reads the configuration section before its arguments
AzureStorageClient_config_first(storage_account, storage_account_key, config, environ) ==
  LET options == get_azure_storage_config(config)
      account == IF falsy(options.storage_account) THEN storage_account
                 ELSE options.storage_account
      key == IF falsy(options.storage_account_key) THEN storage_account_key
             ELSE options.storage_account_key
      env == get_azure_storage_env_variables(environ)
  IN  IF account = "None" \/ key = "None"
        THEN <<env.storage_account, env.storage_account_key>>
        ELSE <<account, key>>

\* AzureStorageClient.__init__: the pair BlockBlobService is constructed with
AzureStorageClient(storage_account, storage_account_key, config, environ) ==
  LET options == get_azure_storage_config(config)
      account == IF falsy(storage_account) THEN options.storage_account
                 ELSE storage_account
      key == IF falsy(storage_account_key) THEN options.storage_account_key
             ELSE storage_account_key
      env == get_azure_storage_env_variables(environ)
  IN  IF account = "None" \/ key = "None"
        THEN <<env.storage_account, env.storage_account_key>>
        ELSE <<account, key>>

\* ---------------------------------------------------------------- reader
\* the bytes of a stream: a letter, and the two line terminators \n and \r
StreamBytes == {"c", "LF", "CR"}

\* what the handle delivers at a time: every short chunk, and the chunk of
\* the documented example
Chunks ==
  UNION { [1..n -> StreamBytes] : n \in 0..MaxChunkLen } \cup { <<"c", "c", "LF">> }

\* os.linesep, as it is on POSIX
linesep == <<"LF">>

\* b''.join(parts)
RECURSIVE concat(_)
concat(parts) == IF parts = <<>> THEN <<>> ELSE Head(parts) \o concat(Tail(parts))

\* line.endswith(suffix)
endswith(line, suffix) ==
  /\ Len(line) >= Len(suffix)
  /\ SubSeq(line, Len(line) - Len(suffix) + 1, Len(line)) = suffix

\* the index at which the first line of a non-empty chunk ends: behind its
\* first \n, \r or \r\n, or at the end of the chunk
line_end(chunk) ==
  IF \A i \in 1..Len(chunk) : chunk[i] = "c" THEN Len(chunk)
  ELSE LET i == CHOOSE j \in 1..Len(chunk) :
                  chunk[j] # "c" /\ \A k \in 1..(j - 1) : chunk[k] = "c"
       IN  IF chunk[i] = "CR" /\ i < Len(chunk) /\ chunk[i + 1] = "LF"
             THEN i + 1 ELSE i

\* chunk.splitlines(True): the lines of the chunk, terminators kept
RECURSIVE splitlines(_)
splitlines(chunk) ==
  IF chunk = <<>> THEN <<>>
  ELSE <<SubSeq(chunk, 1, line_end(chunk))>>
         \o splitlines(SubSeq(chunk, line_end(chunk) + 1, Len(chunk)))

\* ReadableS3File._add_to_buffer
add_to_buffer(buffer, line) == Append(buffer, line)

\* ReadableS3File._flush_buffer: the joined buffer, and the buffer emptied
flush_buffer(buffer) == [output |-> concat(buffer), buffer |-> <<>>]

\* __iter__, the loop over the lines of one chunk: the lines yielded are
\* appended to out
RECURSIVE iter_lines(_, _, _)
iter_lines(lines, buffer, out) ==
  IF lines = <<>> THEN [buffer |-> buffer, out |-> out]
  ELSE IF ~endswith(Head(lines), linesep)
    THEN iter_lines(Tail(lines), add_to_buffer(buffer, Head(lines)), out)
  ELSE IF buffer # <<>>
    THEN LET flushed == flush_buffer(add_to_buffer(buffer, Head(lines)))
         IN  iter_lines(Tail(lines), flushed.buffer, Append(out, flushed.output))
  ELSE iter_lines(Tail(lines), buffer, Append(out, Head(lines)))

\* the end of the iteration with what is left in the buffer thrown away
stop_iteration_without_flush(buffer, out) == [buffer |-> <<>>, out |-> out]

\* __iter__ on StopIteration: what is left in the buffer is yielded if it is
\* not empty
stop_iteration(buffer, out) ==
  LET flushed == flush_buffer(buffer)
  IN  [buffer |-> flushed.buffer,
       out |-> IF flushed.output # <<>> THEN Append(out, flushed.output) ELSE out]

\* read that hands over whatever the handle returns
read_unlatched(finished, f) == [finished |-> finished \/ f = <<>>, ret |-> f]

\* ReadableS3File.read, the handle having returned f
read(finished, f) ==
  LET fin == finished \/ f = <<>>
  IN  [finished |-> fin, ret |-> IF fin THEN <<>> ELSE f]

\* ReadableS3File.__init__ on a handle; chunks are the chunks the handle has
\* delivered, out the records yielded, got and ret what the handle returned
\* to the last read and what the read returned
\* key_closes counts the calls of s3_key.close(), last is the method that
\* closed the reader last
ReadableS3File ==
  [state |-> "open", buffer |-> <<>>, closed |-> FALSE,
   finished |-> FALSE, key_closes |-> 0, pc |-> "start", chunks |-> <<>>,
   out |-> <<>>, reads |-> 0, got |-> <<>>, ret |-> <<>>, last |-> ""]

\* ReadableS3File.close: self.s3_key.close(), then self.closed = True
close(r) == [r EXCEPT !.closed = TRUE, !.key_closes = @ + 1]

\* the chunks delivered to a reader that is closed on the way
CloseChunks == { <<"c", "LF">>, <<"c">> }

\* ---------------------------------------------------------------- outcomes
\* the outcome of a call: the value returned (as Python prints it; "pair" is
\* the tuple (1, n)) or the exception raised, and the service it leaves
Outcome(ret, exc, n, bl, pd) ==
  [ret |-> ret, exc |-> exc, n |-> n, blobs |-> bl, pending |-> pd]

Returns(ret, bl, pd) == Outcome(ret, "", 0, bl, pd)
Raises(exc, bl, pd) == Outcome("None", exc, 0, bl, pd)

\* the outcome of a download: `data` is what the call hands over, written to
\* the local file by get and returned ("str") by get_as_string
Fetched(ret, exc, data, bl, pd) ==
  [ret |-> ret, exc |-> exc, n |-> 0, data |-> data, blobs |-> bl, pending |-> pd]

\* ---------------------------------------------------------------- client
\* exists that stops at the container: the blob is never looked up
exists_container_only(path, cs, bl, pd) ==
  LET cb == path_to_container_and_blob(path)
  IN  IF cb.exc # "" THEN Raises(cb.exc, bl, pd)
      ELSE IF ~container_exists(cs, cb.container) THEN Returns("False", bl, pd)
      ELSE Returns("True", bl, pd)

exists(path, cs, bl, pd) ==
  LET cb == path_to_container_and_blob(path)
  IN  IF cb.exc # "" THEN Raises(cb.exc, bl, pd)
      ELSE IF ~container_exists(cs, cb.container) THEN Returns("False", bl, pd)
      ELSE IF blob_exists(bl, cb.container, cb.blob_name) THEN Returns("True", bl, pd)
      ELSE Returns("False", bl, pd)

\* remove that deletes every blob of the container
remove_whole_container(path, cs, bl, pd) ==
  LET e1 == exists(path, cs, bl, pd)
      cb == path_to_container_and_blob(path)
  IN  IF e1.exc # "" THEN e1
      ELSE IF e1.ret # "True" THEN Returns("False", bl, pd)
      ELSE IF is_root(cb.blob_name) THEN Raises("InvalidDeleteException", bl, pd)
      ELSE Returns("True", [k \in {j \in DOMAIN bl : j[1] # cb.container} |-> bl[k]],
                   [k \in {j \in DOMAIN pd : j[1] # cb.container} |-> pd[k]])

remove(path, cs, bl, pd) ==
  LET e1 == exists(path, cs, bl, pd)
      cb == path_to_container_and_blob(path)
  IN  IF e1.exc # "" THEN e1
      ELSE IF e1.ret # "True" THEN Returns("False", bl, pd)
      ELSE IF is_root(cb.blob_name) THEN Raises("InvalidDeleteException", bl, pd)
      ELSE IF ~container_exists(cs, cb.container) THEN Returns("False", bl, pd)
      ELSE IF exists(path, cs, bl, pd).ret = "True"
             THEN Returns("True", delete_blob(bl, cb.container, cb.blob_name),
                          drop_copy(pd, cb.container, cb.blob_name))
             ELSE Returns("False", bl, pd)

\* put that uploads under the whole path instead of the blob-name
put_under_whole_path(content, destination_azure_path, cs, bl, pd) ==
  LET cb == path_to_container_and_blob(destination_azure_path)
  IN  IF cb.exc # "" THEN Raises(cb.exc, bl, pd)
      ELSE IF ~container_exists(cs, cb.container) THEN Returns("False", bl, pd)
      ELSE IF ~storable(cb.blob_name) THEN Raises("AzureHttpError", bl, pd)
      ELSE Returns("None",
                   create_blob(bl, cb.container, destination_azure_path, content),
                   drop_copy(pd, cb.container, destination_azure_path))

put(content, destination_azure_path, cs, bl, pd) ==
  LET cb == path_to_container_and_blob(destination_azure_path)
  IN  IF cb.exc # "" THEN Raises(cb.exc, bl, pd)
      ELSE IF ~container_exists(cs, cb.container) THEN Returns("False", bl, pd)
      ELSE IF ~storable(cb.blob_name) THEN Raises("AzureHttpError", bl, pd)
      ELSE Returns("None", create_blob(bl, cb.container, cb.blob_name, content),
                   drop_copy(pd, cb.container, cb.blob_name))

put_string(content, destination_azure_path, cs, bl, pd) ==
  LET cb == path_to_container_and_blob(destination_azure_path)
  IN  IF cb.exc # "" THEN Raises(cb.exc, bl, pd)
      ELSE IF ~container_exists(cs, cb.container) THEN Returns("False", bl, pd)
      ELSE IF ~storable(cb.blob_name) THEN Raises("AzureHttpError", bl, pd)
      ELSE Returns("None",
                   create_blob(bl, cb.container, cb.blob_name, encode(content)),
                   drop_copy(pd, cb.container, cb.blob_name))

\* get: the blob is downloaded into the local file; the method has no
\* return statement after the download
get(path, cs, bl, pd) ==
  LET cb == path_to_container_and_blob(path)
  IN  IF cb.exc # "" THEN Fetched("None", cb.exc, <<>>, bl, pd)
      ELSE IF ~container_exists(cs, cb.container)
             THEN Fetched("False", "", <<>>, bl, pd)
      ELSE IF ~blob_exists(bl, cb.container, cb.blob_name)
             THEN Fetched("None", "AzureMissingResourceHttpError", <<>>, bl, pd)
      ELSE Fetched("None", "", get_blob(bl, cb.container, cb.blob_name), bl, pd)

\* get_as_string that returns the blob's bytes as they are stored
get_as_string_undecoded(path, cs, bl, pd) ==
  LET cb == path_to_container_and_blob(path)
  IN  IF cb.exc # "" THEN Fetched("None", cb.exc, <<>>, bl, pd)
      ELSE IF ~container_exists(cs, cb.container)
             THEN Fetched("False", "", <<>>, bl, pd)
      ELSE IF ~blob_exists(bl, cb.container, cb.blob_name)
             THEN Fetched("None", "AzureMissingResourceHttpError", <<>>, bl, pd)
      ELSE Fetched("str", "", get_blob(bl, cb.container, cb.blob_name), bl, pd)

\* get_as_string: get_blob_to_text(...).content, the blob decoded
get_as_string(path, cs, bl, pd) ==
  LET cb == path_to_container_and_blob(path)
  IN  IF cb.exc # "" THEN Fetched("None", cb.exc, <<>>, bl, pd)
      ELSE IF ~container_exists(cs, cb.container)
             THEN Fetched("False", "", <<>>, bl, pd)
      ELSE IF ~blob_exists(bl, cb.container, cb.blob_name)
             THEN Fetched("None", "AzureMissingResourceHttpError", <<>>, bl, pd)
      ELSE LET text == decode(get_blob(bl, cb.container, cb.blob_name))
           IN  IF text.exc # "" THEN Fetched("None", text.exc, <<>>, bl, pd)
               ELSE Fetched("str", "", text.text, bl, pd)

\* copy that builds the source URL from the destination blob
copy_start_from_destination(source_path, destination_path, status, cs, bl, pd) ==
  LET s == path_to_container_and_blob(source_path)
      d == path_to_container_and_blob(destination_path)
  IN  IF s.exc # "" THEN Raises(s.exc, bl, pd)
      ELSE IF d.exc # "" THEN Raises(d.exc, bl, pd)
      ELSE IF s.container # d.container THEN Raises("ValueError", bl, pd)
      ELSE IF \/ ~container_exists(cs, s.container)
              \/ ~blob_exists(bl, s.container, d.blob_name)
              \/ ~storable(d.blob_name)
             THEN Raises("AzureHttpError", bl, pd)
      ELSE LET cp == copy_blob(bl, pd, s.container, d.blob_name, d.blob_name, status)
           IN  Outcome("None", "", cp.progress, cp.blobs, cp.pending)

\* copy that does not compare the containers
copy_start_unchecked(source_path, destination_path, status, cs, bl, pd) ==
  LET s == path_to_container_and_blob(source_path)
      d == path_to_container_and_blob(destination_path)
  IN  IF s.exc # "" THEN Raises(s.exc, bl, pd)
      ELSE IF d.exc # "" THEN Raises(d.exc, bl, pd)
      ELSE IF \/ ~container_exists(cs, s.container)
              \/ ~blob_exists(bl, s.container, s.blob_name)
              \/ ~storable(d.blob_name)
             THEN Raises("AzureHttpError", bl, pd)
      ELSE LET cp == copy_blob(bl, pd, s.container, d.blob_name, s.blob_name, status)
           IN  Outcome("None", "", cp.progress, cp.blobs, cp.pending)

\* copy, up to the call of copy_blob; `status` is the status the service reports
copy_start(source_path, destination_path, status, cs, bl, pd) ==
  LET s == path_to_container_and_blob(source_path)
      d == path_to_container_and_blob(destination_path)
  IN  IF s.exc # "" THEN Raises(s.exc, bl, pd)
      ELSE IF d.exc # "" THEN Raises(d.exc, bl, pd)
      ELSE IF s.container # d.container THEN Raises("ValueError", bl, pd)
      ELSE IF \/ ~container_exists(cs, s.container)
              \/ ~blob_exists(bl, s.container, s.blob_name)
              \/ ~storable(d.blob_name)
             THEN Raises("AzureHttpError", bl, pd)
      ELSE LET cp == copy_blob(bl, pd, s.container, d.blob_name, s.blob_name, status)
           IN  Outcome("None", "", cp.progress, cp.blobs, cp.pending)

\* copy, one turn of the loop on a pending status: time.sleep(1), then
\* self.service, an attribute the client does not have
copy_poll(bl, pd) == Raises("AttributeError", bl, pd)

\* copy, after the loop
copy_return(status, progress, bl, pd) ==
  IF status = "success" THEN Outcome("pair", "", progress, bl, pd)
  ELSE Returns("None", bl, pd)

\* copy, as far as it runs without waiting: to its end when the service
\* reports no pending status, to the head of the loop when it does
copy(source_path, destination_path, status, cs, bl, pd) ==
  LET st == copy_start(source_path, destination_path, status, cs, bl, pd)
  IN  IF st.exc # "" \/ status = "pending" THEN st
      ELSE copy_return(status, st.n, st.blobs, st.pending)

\* move that forgets to remove the source
move_without_remove(source_path, destination_path, status, cs, bl, pd) ==
  LET cp == copy(source_path, destination_path, status, cs, bl, pd)
  IN  IF cp.exc # "" \/ status = "pending" THEN cp
      ELSE Returns("None", cp.blobs, cp.pending)

\* move: copy, then remove(source_path)
move(source_path, destination_path, status, cs, bl, pd) ==
  LET cp == copy(source_path, destination_path, status, cs, bl, pd)
      rm == remove(source_path, cs, cp.blobs, cp.pending)
  IN  IF cp.exc # "" \/ status = "pending" THEN cp
      ELSE IF rm.exc # "" THEN rm
      ELSE Returns("None", rm.blobs, rm.pending)

\* ---------------------------------------------------------------- writer
\* the methods of AzureStorageClient
ClientMethods ==
  { "exists", "remove", "put", "put_string", "get", "get_as_string", "copy",
    "move" }

\* AtomicS3File.move_to_final_destination: s3_client.put_multipart(tmp_path, path)
move_to_final_destination(content, path, cs, bl, pd) ==
  IF "put_multipart" \in ClientMethods
    THEN put(content, path, cs, bl, pd)
    ELSE Raises("AttributeError", bl, pd)

\* the modes a target is opened in without a writer: 'r', and 'a' for the
\* modes the target does not know
OpenModes == {"r", "a"}

\* S3Target.open(mode) for a mode other than 'w': the check of the mode, then
\* self.fs.get_key(path), a method the client must have
S3Target_open(mode, path, cs, bl, pd) ==
  IF mode \notin {"r", "w"} THEN Raises("ValueError", bl, pd)
  ELSE IF "get_key" \notin ClientMethods THEN Raises("AttributeError", bl, pd)
  ELSE IF ~Resolvable(path) THEN Raises(path_to_container_and_blob(path).exc, bl, pd)
  ELSE IF KeyOf(path) \notin DOMAIN bl THEN Raises("FileNotFoundException", bl, pd)
  ELSE Returns("reader", bl, pd)

\* a writer that creates the (empty) target blob as soon as it is opened
AtomicS3File_creating_blob(path, bl) ==
  [session |-> [state |-> "open", path |-> path],
   blobs |-> create_blob(bl, KeyOf(path)[1], KeyOf(path)[2], <<>>)]

\* AtomicS3File.__init__: keeps the client and the options, and lets
\* AtomicLocalFile create the temp file; nothing is sent to the service
AtomicS3File(path, bl) == [session |-> [state |-> "open", path |-> path], blobs |-> bl]

\* AtomicLocalFile.__init__: a new, empty, private temp file
create_tmp(tf, i) == [k \in DOMAIN tf \cup {i} |-> IF k = i THEN <<>> ELSE tf[k]]

\* AtomicLocalFile.write: the chunk goes to the end of the temp file
write_tmp(tf, i, chunk) == [tf EXCEPT ![i] = @ \o chunk]

\* AtomicLocalFile: the temp file is removed
remove_tmp(tf, i) == [k \in DOMAIN tf \ {i} |-> tf[k]]

\* ---------------------------------------------------------------- calls
\* a finished call; seq alternates so that every call is a visible step
Done(op, path, path2, out) ==
  [op |-> op, path |-> path, path2 |-> path2, pc |-> "done", status |-> "",
   ret |-> out.ret, exc |-> out.exc, n |-> out.n, data |-> <<>>,
   seq |-> 1 - call.seq]

\* ---------------------------------------------------------------- actions
\* the account as it is found, and nothing called, opened or written yet
InitService ==
  /\ containers \in SUBSET ProvisionedContainers
  /\ blobs = <<>>
  /\ pending = <<>>
  /\ call = [op |-> "none", path |-> <<>>, path2 |-> <<>>, pc |-> "done",
             status |-> "", ret |-> "None", exc |-> "", n |-> 0, data |-> <<>>,
             seq |-> 0]
  /\ sessions = [i \in 1..MaxSessions |-> [state |-> "none", path |-> <<>>]]
  /\ tmp_files = <<>>

NoProbe == [fn |-> "none"]
NoReader == [state |-> "none"]

Init ==
  /\ InitService
  /\ probe = NoProbe
  /\ reader = NoReader

Exists(path) ==
  LET out == exists(path, containers, blobs, pending)
  IN  /\ call.pc = "done"
      /\ call' = Done("exists", path, <<>>, out)
      /\ UNCHANGED <<containers, blobs, pending, local, aside>>

Remove(path) ==
  LET out == remove(path, containers, blobs, pending)
  IN  /\ call.pc = "done"
      /\ blobs' = out.blobs
      /\ pending' = out.pending
      /\ call' = Done("remove", path, <<>>, out)
      /\ UNCHANGED <<containers, local, aside>>

Put(content, path) ==
  LET out == put(content, path, containers, blobs, pending)
  IN  /\ call.pc = "done"
      /\ blobs' = out.blobs
      /\ pending' = out.pending
      /\ call' = [Done("put", path, <<>>, out) EXCEPT !.data = content]
      /\ UNCHANGED <<containers, local, aside>>

PutString(content, path) ==
  LET out == put_string(content, path, containers, blobs, pending)
  IN  /\ call.pc = "done"
      /\ blobs' = out.blobs
      /\ pending' = out.pending
      /\ call' = [Done("put_string", path, <<>>, out) EXCEPT !.data = content]
      /\ UNCHANGED <<containers, local, aside>>

Get(path) ==
  LET out == get(path, containers, blobs, pending)
  IN  /\ call.pc = "done"
      /\ call' = [Done("get", path, <<>>, out) EXCEPT !.data = out.data]
      /\ UNCHANGED <<containers, blobs, pending, local, aside>>

GetAsString(path) ==
  LET out == get_as_string(path, containers, blobs, pending)
  IN  /\ call.pc = "done"
      /\ call' = [Done("get_as_string", path, <<>>, out) EXCEPT !.data = out.data]
      /\ UNCHANGED <<containers, blobs, pending, local, aside>>

\* the status copy_blob may report: a copy is left in progress only onto
\* another blob, and only MaxPending of them at once
MayReport(status, source_path, destination_path) ==
  status = "pending" =>
    /\ Cardinality(DOMAIN pending) < MaxPending
    /\ KeyOf(source_path) # KeyOf(destination_path)

\* the call as copy or move leaves it: finished, or at the head of the loop
After(op, source_path, destination_path, status, out) ==
  [Done(op, source_path, destination_path, out) EXCEPT
     !.pc = IF out.exc = "" /\ status = "pending" THEN "poll" ELSE "done",
     !.status = IF out.exc = "" \/ out.exc = "AttributeError" THEN status ELSE ""]

Copy(source_path, destination_path, status) ==
  LET out == copy(source_path, destination_path, status, containers, blobs, pending)
  IN  /\ call.pc = "done"
      /\ MayReport(status, source_path, destination_path)
      /\ blobs' = out.blobs
      /\ pending' = out.pending
      /\ call' = After("copy", source_path, destination_path, status, out)
      /\ UNCHANGED <<containers, local, aside>>

Move(source_path, destination_path, status) ==
  LET out == move(source_path, destination_path, status, containers, blobs, pending)
  IN  /\ call.pc = "done"
      /\ MayReport(status, source_path, destination_path)
      /\ blobs' = out.blobs
      /\ pending' = out.pending
      /\ call' = After("move", source_path, destination_path, status, out)
      /\ UNCHANGED <<containers, local, aside>>

\* the polling loop of copy, entered on a pending status
CopyPoll ==
  LET out == copy_poll(blobs, pending)
  IN  /\ call.pc = "poll"
      /\ call.status = "pending"
      /\ blobs' = out.blobs
      /\ pending' = out.pending
      /\ call' = After(call.op, call.path, call.path2, call.status, out)
      /\ UNCHANGED <<containers, local, aside>>

\* the service finishes a copy in progress
ServerCopySucceeds(k) ==
  /\ k \in DOMAIN pending
  /\ blobs' = create_blob(blobs, k[1], k[2], pending[k])
  /\ pending' = drop_copy(pending, k[1], k[2])
  /\ UNCHANGED <<containers, call, local, aside>>

\* the service gives up a copy in progress
ServerCopyFails(k) ==
  /\ k \in DOMAIN pending
  /\ pending' = drop_copy(pending, k[1], k[2])
  /\ UNCHANGED <<containers, blobs, call, local, aside>>

\* S3Target.open('w')
Open(i, path) ==
  LET w == AtomicS3File(path, blobs)
  IN  /\ call.pc = "done"
      /\ sessions[i].state = "none"
      /\ \A j \in 1..(i - 1) : sessions[j].state # "none"
      /\ sessions' = [sessions EXCEPT ![i] = w.session]
      /\ tmp_files' = create_tmp(tmp_files, i)
      /\ blobs' = w.blobs
      /\ UNCHANGED <<containers, pending, call, aside>>

\* S3Target.open(mode), mode other than 'w'; the call keeps the mode in path2
OpenRead(mode, path) ==
  LET out == S3Target_open(mode, path, containers, blobs, pending)
  IN  /\ call.pc = "done"
      /\ call' = Done("open", path, <<mode>>, out)
      /\ UNCHANGED <<containers, blobs, pending, local, aside>>

\* write on an open session
Write(i, chunk) ==
  /\ sessions[i].state = "open"
  /\ Len(tmp_files[i]) < MaxWrites
  /\ tmp_files' = write_tmp(tmp_files, i, chunk)
  /\ UNCHANGED <<containers, blobs, pending, call, sessions, aside>>

\* close: the upload, then the removal of the temp file
Close(i) ==
  LET out == move_to_final_destination(tmp_files[i], sessions[i].path,
                                       containers, blobs, pending)
  IN  /\ call.pc = "done"
      /\ sessions[i].state = "open"
      /\ blobs' = out.blobs
      /\ pending' = out.pending
      /\ sessions' = [sessions EXCEPT ![i].state =
                        IF out.exc # "" THEN "failed" ELSE "closed"]
      /\ tmp_files' = IF out.exc # "" THEN tmp_files ELSE remove_tmp(tmp_files, i)
      /\ UNCHANGED <<containers, call, aside>>

\* the session is given up without close
Abandon(i) ==
  /\ sessions[i].state = "open"
  /\ sessions' = [sessions EXCEPT ![i].state = "abandoned"]
  /\ tmp_files' = remove_tmp(tmp_files, i)
  /\ UNCHANGED <<containers, blobs, pending, call, aside>>

\* the writer whose close raised is released
Release(i) ==
  /\ sessions[i].state = "failed"
  /\ sessions' = [sessions EXCEPT ![i].state = "released"]
  /\ tmp_files' = remove_tmp(tmp_files, i)
  /\ UNCHANGED <<containers, blobs, pending, call, aside>>

Next ==
  \/ \E path \in Paths : Exists(path)
  \/ \E path \in Paths : Remove(path)
  \/ \E path \in Paths, content \in Contents : Put(content, path)
  \/ \E path \in Paths, content \in Contents : PutString(content, path)

Spec == Init /\ [][Next]_vars

\* uploads and downloads of files and of text
NextIO ==
  \/ \E path \in IOPaths, content \in Files : Put(content, path)
  \/ \E path \in IOPaths, content \in Texts : PutString(content, path)
  \/ \E path \in IOPaths : Get(path)
  \/ \E path \in IOPaths : GetAsString(path)

SpecIO == Init /\ [][NextIO]_vars

\* copy and move, with the service finishing its copies on its own
NextCopy ==
  \/ \E path \in SourcePaths, content \in Contents : Put(content, path)
  \/ \E path \in SourcePaths, content \in Contents : PutString(content, path)
  \/ \E pair \in CopyPairs, status \in CopyStatuses : Copy(pair[1], pair[2], status)
  \/ \E pair \in CopyPairs, status \in CopyStatuses : Move(pair[1], pair[2], status)
  \/ CopyPoll
  \/ \E k \in DOMAIN pending : ServerCopySucceeds(k)
  \/ \E k \in DOMAIN pending : ServerCopyFails(k)

SpecCopy == Init /\ [][NextCopy]_vars

\* the atomic writers, with a client that puts to the same targets
NextAtomic ==
  \/ \E i \in 1..MaxSessions, path \in TargetPaths : Open(i, path)
  \/ \E i \in 1..MaxSessions : Write(i, <<"z">>)
  \/ \E i \in 1..MaxSessions : Close(i)
  \/ \E i \in 1..MaxSessions : Abandon(i)
  \/ \E i \in 1..MaxSessions : Release(i)
  \/ \E path \in TargetPaths, content \in Contents : Put(content, path)

SpecAtomic == Init /\ [][NextAtomic]_vars

\* a client about to be constructed, with the arguments, the configuration
\* and the environment it will see
InitCredentials ==
  /\ InitService
  /\ reader = NoReader
  /\ probe \in [fn : {"__init__"}, pc : {"start"},
                storage_account : ArgValues, storage_account_key : ArgValues,
                config : ConfigSections, environ : Environs,
                account_name : {"None"}, account_key : {"None"}]

\* AzureStorageClient(storage_account, storage_account_key)
Construct ==
  LET pair == AzureStorageClient(probe.storage_account, probe.storage_account_key,
                                 probe.config, probe.environ)
  IN  /\ probe.fn = "__init__"
      /\ probe.pc = "start"
      /\ probe' = [probe EXCEPT !.pc = "done", !.account_name = pair[1],
                                !.account_key = pair[2]]
      /\ UNCHANGED <<containers, blobs, pending, call, local, reader>>

NextCredentials == Construct

SpecCredentials == InitCredentials /\ [][NextCredentials]_vars

\* targets opened in every mode, on blobs that exist and blobs that do not
NextOpen ==
  \/ \E i \in 1..MaxSessions, path \in TargetPaths : Open(i, path)
  \/ \E mode \in OpenModes, path \in IOPaths : OpenRead(mode, path)
  \/ \E path \in IOPaths, content \in Contents : Put(content, path)

SpecOpen == Init /\ [][NextOpen]_vars

\* a path about to be given to the codec
InitCodec ==
  /\ InitService
  /\ reader = NoReader
  /\ probe \in [fn : {"_path_to_container_and_blob"}, pc : {"start"},
                path : CodecPaths, exc : {""}, container : {<<>>},
                blob_name : {<<>>}]

\* self._path_to_container_and_blob(path)
PathToContainerAndBlob ==
  LET cb == path_to_container_and_blob(probe.path)
  IN  /\ probe.fn = "_path_to_container_and_blob"
      /\ probe.pc = "start"
      /\ probe' = [probe EXCEPT !.pc = "done", !.exc = cb.exc,
                                !.container = cb.container,
                                !.blob_name = cb.blob_name]
      /\ UNCHANGED <<containers, blobs, pending, call, local, reader>>

NextCodec == PathToContainerAndBlob

SpecCodec == InitCodec /\ [][NextCodec]_vars

\* a reader on a new handle, on an account with its containers provisioned
InitReader ==
  /\ InitService
  /\ containers = ProvisionedContainers
  /\ probe = NoProbe
  /\ reader = ReadableS3File

\* __iter__, one turn of the loop: next(key_iter) delivers a chunk
NextChunk(chunk) ==
  LET it == iter_lines(splitlines(chunk), reader.buffer, reader.out)
  IN  /\ reader.state = "open"
      /\ reader.pc \in {"start", "iterating"}
      /\ Len(reader.chunks) < MaxChunks
      /\ reader' = [reader EXCEPT !.pc = "iterating",
                                  !.chunks = Append(@, chunk),
                                  !.buffer = it.buffer,
                                  !.out = it.out]
      /\ UNCHANGED <<containers, blobs, pending, call, local, probe>>

\* __iter__, the last turn: next(key_iter) raises StopIteration, the buffer
\* is flushed and the reader closed
StopIteration ==
  LET it == stop_iteration(reader.buffer, reader.out)
  IN  /\ reader.state = "open"
      /\ reader.pc \in {"start", "iterating"}
      /\ reader.key_closes < MaxCloses
      /\ reader' = [close(reader) EXCEPT !.pc = "exhausted",
                                         !.buffer = it.buffer,
                                         !.out = it.out,
                                         !.last = "__iter__"]
      /\ UNCHANGED <<containers, blobs, pending, call, local, probe>>

\* read(size), s3_key.read returning f
Read(f) ==
  LET r == read(reader.finished, f)
  IN  /\ reader.state = "open"
      /\ reader.reads < MaxReads
      /\ reader' = [reader EXCEPT !.finished = r.finished,
                                  !.ret = r.ret,
                                  !.got = f,
                                  !.reads = @ + 1]
      /\ UNCHANGED <<containers, blobs, pending, call, local, probe>>

\* close()
ReaderClose ==
  /\ reader.state = "open"
  /\ reader.key_closes < MaxCloses
  /\ reader' = [close(reader) EXCEPT !.last = "close"]
  /\ UNCHANGED <<containers, blobs, pending, call, local, probe>>

\* __exit__: the with block is left, by its end or by an exception
ReaderExit ==
  /\ reader.state = "open"
  /\ reader.key_closes < MaxCloses
  /\ reader' = [close(reader) EXCEPT !.last = "__exit__"]
  /\ UNCHANGED <<containers, blobs, pending, call, local, probe>>

\* __del__: the reader is collected, and nothing is called on it after that
ReaderDel ==
  /\ reader.state = "open"
  /\ reader.key_closes < MaxCloses
  /\ reader' = [close(reader) EXCEPT !.last = "__del__", !.state = "deleted"]
  /\ UNCHANGED <<containers, blobs, pending, call, local, probe>>

\* the iteration over a reader
NextIter ==
  \/ \E chunk \in Chunks : NextChunk(chunk)
  \/ StopIteration

SpecIter == InitReader /\ [][NextIter]_vars

\* a reader iterated over, closed, left and collected, in any order
NextClose ==
  \/ \E chunk \in CloseChunks : NextChunk(chunk)
  \/ StopIteration
  \/ ReaderClose
  \/ ReaderExit
  \/ ReaderDel

SpecClose == InitReader /\ [][NextClose]_vars

\* the reads of a reader
NextRead == \E f \in Chunks : Read(f)

SpecRead == InitReader /\ [][NextRead]_vars

\* ---------------------------------------------------------------- claims
\* a step in which the client's call `op` finishes
Finished(op) == call'.seq # call.seq /\ call'.pc = "done" /\ call'.op = op

\* the container of the path exists and holds a blob under the path's blob-name
Present(path, cs, bl) ==
  /\ path_to_container_and_blob(path).container \in cs
  /\ KeyOf(path) \in DOMAIN bl

\* C1: in every store state and for every path the codec resolves, exists(path)
\* returns without raising, and returns true exactly when the path's container
\* exists and holds a blob under the path's blob-name; in particular it returns
\* false when the container is absent.
C1_ExistsIffPresent ==
  [][Finished("exists") /\ Resolvable(call'.path) =>
       /\ call'.exc = ""
       /\ call'.ret \in {"True", "False"}
       /\ call'.ret = "True" <=> Present(call'.path, containers, blobs)
       /\ blobs' = blobs]_vars

C1_Witness ==
  /\ call.op = "exists" /\ call.pc = "done" /\ call.ret = "True"
  /\ Present(call.path, containers, blobs)

\* C3: remove(p) on a resolvable path whose blob does not exist returns false
\* without raising and leaves the store unchanged; remove(p) on an existing
\* non-root blob returns true, deletes exactly that blob, every other blob
\* unchanged, and exists(p) is false afterwards.
C3_Remove ==
  [][Finished("remove") /\ Resolvable(call'.path) =>
       LET k == KeyOf(call'.path)
       IN  IF ~Present(call'.path, containers, blobs)
             THEN call'.ret = "False" /\ call'.exc = "" /\ blobs' = blobs
             ELSE ~is_root(k[2]) =>
                    /\ call'.ret = "True" /\ call'.exc = ""
                    /\ DOMAIN blobs' = DOMAIN blobs \ {k}
                    /\ \A j \in DOMAIN blobs' : blobs'[j] = blobs[j]
                    /\ exists(call'.path, containers', blobs', pending').ret = "False"]_vars

C3_Witness ==
  /\ call.op = "remove" /\ call.pc = "done" /\ call.ret = "True"
  /\ KeyOf(call.path) \notin DOMAIN blobs
  /\ DOMAIN blobs # {}

\* C8: for every path whose blob-name is the container root ('' or '/'),
\* remove(path) raises InvalidDeleteException and deletes nothing, in every
\* store state.
C8_RootRemoveRaises ==
  [][Finished("remove") /\ Resolvable(call'.path)
       /\ is_root(path_to_container_and_blob(call'.path).blob_name) =>
       call'.exc = "InvalidDeleteException" /\ blobs' = blobs]_vars

\* exists(path), in the state a step leaves
ExistsNow(path) == exists(path, containers, blobs, pending).ret
ExistsNext(path) == exists(path, containers', blobs', pending').ret

\* the path has a non-root blob-name in an existing container
PlainPath(path) ==
  /\ Resolvable(path)
  /\ ~is_root(path_to_container_and_blob(path).blob_name)
  /\ path_to_container_and_blob(path).container \in containers

\* C2: the store starts empty, and for every path p with a non-root blob-name
\* in an existing container exists(p) turns from false to true only in a step
\* of put(p) or put_string(p), or of a copy or move whose destination is p;
\* and exists(p) is true right after put(local, p) or put_string(content, p)
\* returns.
C2_ExistsAfterPut ==
  [][/\ \A p \in Paths :
          PlainPath(p) /\ ExistsNow(p) = "False" /\ ExistsNext(p) = "True" =>
            /\ call'.seq # call.seq
            /\ \/ call'.op \in {"put", "put_string"} /\ KeyOf(call'.path) = KeyOf(p)
               \/ call'.op \in {"copy", "move"} /\ KeyOf(call'.path2) = KeyOf(p)
     /\ (Finished("put") \/ Finished("put_string")) /\ PlainPath(call'.path) =>
          /\ call'.exc = "" /\ call'.ret = "None"
          /\ ExistsNext(call'.path) = "True"]_vars

C2_Witness ==
  /\ call.op = "put_string" /\ call.pc = "done" /\ call.exc = "" /\ call.ret = "None"
  /\ PlainPath(call.path)
  /\ ExistsNow(call.path) = "True"

\* C4: for a source and a destination in the same existing container, the
\* source blob existing and the service reporting the copy done, copy(src, dst)
\* returns the pair (1, bytes copied); and whenever copy returns a pair,
\* exists(dst) is true, exists(src) is still true with its content unchanged,
\* and the destination content equals the source content.
C4_CopyKeepsSource ==
  [][Finished("copy") /\ call.pc = "done" =>
       LET s == KeyOf(call'.path)
           d == KeyOf(call'.path2)
       IN  /\ ( /\ PlainPath(call'.path) /\ PlainPath(call'.path2)
                /\ s[1] = d[1]
                /\ Present(call'.path, containers, blobs)
                /\ call'.status = "success" ) =>
                  call'.exc = "" /\ call'.ret = "pair"
           /\ call'.ret = "pair" =>
                /\ ExistsNext(call'.path2) = "True"
                /\ ExistsNext(call'.path) = "True"
                /\ blobs'[s] = blobs[s]
                /\ blobs'[d] = blobs'[s]
                /\ call'.n = Len(blobs[s])]_vars

C4_Witness ==
  /\ call.op = "copy" /\ call.pc = "done" /\ call.ret = "pair"
  /\ KeyOf(call.path) # KeyOf(call.path2)
  /\ ExistsNow(call.path) = "True" /\ ExistsNow(call.path2) = "True"
  /\ blobs[KeyOf(call.path2)] = blobs[KeyOf(call.path)]
  /\ blobs[KeyOf(call.path2)] # <<>>

\* C5, as stated: after move(src, dst) returns, exists(dst) is true and
\* exists(src) is false, for any source and destination in the same existing
\* container with an existing source blob.
C5_MoveAsStated ==
  [][Finished("move") /\ call'.exc = "" =>
       ExistsNext(call'.path2) = "True" /\ ExistsNext(call'.path) = "False"]_vars

\* C5, amended: for a source and a destination that resolve to different blobs
\* of the same existing container, with an existing source blob: after
\* move(src, dst) returns, exists(dst) is true and exists(src) is false; and
\* move does return when the service reports the copy done.
C5_Move ==
  [][Finished("move") /\ call.pc = "done" /\ KeyOf(call'.path) # KeyOf(call'.path2) =>
       /\ ( /\ PlainPath(call'.path) /\ PlainPath(call'.path2)
            /\ KeyOf(call'.path)[1] = KeyOf(call'.path2)[1]
            /\ Present(call'.path, containers, blobs)
            /\ call'.status = "success" ) =>
              call'.exc = "" /\ call'.ret = "None"
       /\ call'.exc = "" =>
            /\ ExistsNext(call'.path2) = "True"
            /\ ExistsNext(call'.path) = "False"]_vars

C5_Witness ==
  /\ call.op = "move" /\ call.pc = "done" /\ call.exc = ""
  /\ KeyOf(call.path) # KeyOf(call.path2)
  /\ ExistsNow(call.path2) = "True" /\ ExistsNow(call.path) = "False"

\* C9: copy(src, dst) and move(src, dst) with src and dst in different
\* containers raise a validation error (ValueError) and leave the store
\* unchanged: no blob of either container is written or removed.
C9_CrossContainer ==
  [][( /\ Finished("copy") \/ Finished("move")
       /\ Resolvable(call'.path) /\ Resolvable(call'.path2)
       /\ KeyOf(call'.path)[1] # KeyOf(call'.path2)[1] ) =>
       call'.exc = "ValueError" /\ blobs' = blobs /\ pending' = pending]_vars

C9_Witness ==
  /\ call.op = "move" /\ call.pc = "done" /\ call.exc = "ValueError"
  /\ KeyOf(call.path)[1] # KeyOf(call.path2)[1]
  /\ Present(call.path, containers, blobs)

\* C10: a copy whose server-side copy was accepted ends by returning
\* (1, bytes copied), after the last status it observed was 'success': it
\* neither returns nor raises while the status it observes is 'pending'.
C10_PollsUntilSuccess ==
  call.op = "copy" /\ call.pc = "done" /\ call.status # "" =>
    call.exc = "" /\ call.ret = "pair" /\ call.status = "success"

\* C6: when an atomic write session on a target in an existing container is
\* closed, close returns and the target blob then holds the complete content
\* of the session's temp file, uploaded by that one step.
C6_CloseUploads ==
  [][\A i \in 1..MaxSessions :
       ( /\ sessions[i].state = "open"
         /\ sessions'[i].state \in {"closed", "failed"}
         /\ PlainPath(sessions[i].path) ) =>
           /\ sessions'[i].state = "closed"
           /\ Present(sessions[i].path, containers', blobs')
           /\ blobs'[KeyOf(sessions[i].path)] = tmp_files[i]]_vars

\* C7: opening an atomic write session, writing to it and abandoning it each
\* leave the remote store as it was, so that a session abandoned before close
\* has changed nothing remotely; and an abandoned session has no temp file.
C7_AbandonLeavesNothing ==
  [][\A i \in 1..MaxSessions :
       /\ sessions'[i].state = "abandoned" => i \notin DOMAIN tmp_files'
       /\ ( /\ sessions'[i].state \in {"open", "abandoned"}
            /\ \/ sessions'[i] # sessions[i]
               \/ /\ i \in DOMAIN tmp_files /\ i \in DOMAIN tmp_files'
                  /\ tmp_files'[i] # tmp_files[i] ) =>
              blobs' = blobs /\ pending' = pending]_vars

C7_Witness ==
  \E i \in 1..MaxSessions :
    /\ sessions[i].state = "abandoned"
    /\ i \notin DOMAIN tmp_files
    /\ Present(sessions[i].path, containers, blobs)

\* a step in which a call of the client finishes
Returned == call'.seq # call.seq /\ call'.pc = "done" /\ call'.op \in ClientMethods

\* the call that finishes is addressed to one container, and it is absent
AbsentContainer ==
  /\ Resolvable(call'.path)
  /\ path_to_container_and_blob(call'.path).container \notin containers
  /\ call'.path2 # <<>> =>
       /\ Resolvable(call'.path2)
       /\ path_to_container_and_blob(call'.path2).container
            = path_to_container_and_blob(call'.path).container

\* C11: no step changes the set of containers, and every operation of the
\* client (exists, remove, put, put_string, get, get_as_string, copy, move)
\* called on an absent container returns false, raises nothing and leaves the
\* blobs of the service as they were.
C11_AbsentContainerReturnsFalse ==
  [][/\ containers' = containers
     /\ (Returned /\ AbsentContainer) =>
          /\ call'.ret = "False"
          /\ call'.exc = ""
          /\ blobs' = blobs
          /\ pending' = pending]_vars

\* C12: get and get_as_string return false without raising when the container
\* of the path is absent, and raise FileNotFoundException, handing over
\* nothing, when the container exists and holds no blob under the blob-name;
\* they leave the service as it was.
C12_MissingBlobRaisesNotFound ==
  [][((Finished("get") \/ Finished("get_as_string")) /\ Resolvable(call'.path)) =>
       LET cb == path_to_container_and_blob(call'.path)
       IN  /\ cb.container \notin containers =>
                call'.ret = "False" /\ call'.exc = ""
           /\ (cb.container \in containers /\ KeyOf(call'.path) \notin DOMAIN blobs) =>
                call'.exc = "FileNotFoundException" /\ call'.data = <<>>
           /\ blobs' = blobs]_vars

\* the call before the step uploaded to the blob the call of the step is about
JustUploaded(op) ==
  /\ call.op = op
  /\ call.exc = ""
  /\ call.ret = "None"
  /\ PlainPath(call.path)
  /\ Resolvable(call'.path)
  /\ KeyOf(call'.path) = KeyOf(call.path)

\* C13: on a non-root path of an existing container, get right after put
\* hands over the bytes put uploaded, get_as_string right after put_string
\* returns the text put_string was given, and get_as_string right after put
\* of a file that holds a text in UTF-8 returns that text; put and put_string
\* replace the whole content of the blob, and get and get_as_string, which
\* hand over the content the blob has, leave every blob as it was.
C13_RoundTrip ==
  [][/\ (Finished("get") /\ JustUploaded("put")) =>
          call'.exc = "" /\ call'.ret = "None" /\ call'.data = call.data
     /\ (Finished("get_as_string") /\ JustUploaded("put_string")) =>
          call'.exc = "" /\ call'.ret = "str" /\ call'.data = call.data
     /\ (Finished("get_as_string") /\ JustUploaded("put")) =>
          \A text \in Texts :
            call.data = encode(text) => call'.ret = "str" /\ call'.data = text
     /\ (Finished("put") /\ PlainPath(call'.path) /\ call'.exc = "") =>
          blobs'[KeyOf(call'.path)] = call'.data
     /\ (Finished("put_string") /\ PlainPath(call'.path) /\ call'.exc = "") =>
          decode(blobs'[KeyOf(call'.path)]) = [exc |-> "", text |-> call'.data]
     /\ (Finished("get") /\ PlainPath(call'.path) /\ call'.exc = "") =>
          call'.data = blobs[KeyOf(call'.path)]
     /\ (Finished("get") \/ Finished("get_as_string")) => blobs' = blobs]_vars

\* get_as_string has returned a text with a character of two bytes
C13_Witness ==
  /\ call.op = "get_as_string"
  /\ call.exc = ""
  /\ call.ret = "str"
  /\ call.data = <<"U+E9">>
  /\ blobs[KeyOf(call.path)] = <<"c3", "a9">>

\* C14: when a session is closed while another session on the same target is
\* open or was closed before, the target blob holds from that step on the
\* complete content of the session closed by the step, the last upload, and
\* nothing of the other session; no step of one session changes the temp file
\* of another.
C14_LastWriterWins ==
  [][\A i, j \in 1..MaxSessions :
       ( /\ i # j
         /\ sessions[j].state # "none"
         /\ sessions[j].path = sessions[i].path
         /\ PlainPath(sessions[i].path) ) =>
           /\ ( /\ sessions[i].state = "open"
                /\ sessions'[i].state \in {"closed", "failed"} ) =>
                  /\ Present(sessions[i].path, containers', blobs')
                  /\ blobs'[KeyOf(sessions[i].path)] = tmp_files[i]
           /\ ( /\ sessions'[i] # sessions[i]
                /\ j \in DOMAIN tmp_files
                /\ sessions'[j] = sessions[j] ) =>
                  /\ j \in DOMAIN tmp_files'
                  /\ tmp_files'[j] = tmp_files[j]]_vars

\* the client has been constructed
Constructed == probe.fn = "__init__" /\ probe.pc = "done"

\* a source provides both values
Provides(account, key) == ~falsy(account) /\ ~falsy(key)

\* C15 as stated: the pair passed to the SDK is the pair of the first of the
\* arguments, the configuration section (as it is read) and the environment
\* that provides both values.
C15_FirstCompleteSourceWins ==
  Constructed =>
    LET section == get_azure_storage_config(probe.config)
        env == probe.environ
        passed == <<probe.account_name, probe.account_key>>
    IN  IF Provides(probe.storage_account, probe.storage_account_key)
          THEN passed = <<probe.storage_account, probe.storage_account_key>>
        ELSE IF Provides(section.storage_account, section.storage_account_key)
          THEN passed = <<section.storage_account, section.storage_account_key>>
        ELSE IF Provides(env.AZURE_STORAGE_ACCOUNT,
                         env.AZURE_STORAGE_ACCOUNT_STORAGE_ACCOUNT_KEY)
          THEN passed = <<env.AZURE_STORAGE_ACCOUNT,
                          env.AZURE_STORAGE_ACCOUNT_STORAGE_ACCOUNT_KEY>>
        ELSE TRUE

\* C15: the arguments and the configuration section are merged value by
\* value: each value is the argument when one is given, else the section's
\* value as the section is read (a string of digits read as an integer).  A
\* merge with both values is passed to the SDK, so that a complete pair of
\* arguments, or a complete section under no arguments, is passed as it is.
\* Otherwise both values come from the environment, which provides them only
\* when both variables are set; a value of the environment is never passed
\* beside a value of the arguments or of the section.
C15_MergedThenEnvironment ==
  Constructed =>
    LET section == get_azure_storage_config(probe.config)
        env == probe.environ
        account == IF falsy(probe.storage_account) THEN section.storage_account
                   ELSE probe.storage_account
        key == IF falsy(probe.storage_account_key) THEN section.storage_account_key
               ELSE probe.storage_account_key
        passed == <<probe.account_name, probe.account_key>>
    IN  /\ Provides(probe.storage_account, probe.storage_account_key) =>
             passed = <<probe.storage_account, probe.storage_account_key>>
        /\ ( /\ falsy(probe.storage_account) /\ falsy(probe.storage_account_key)
             /\ Provides(section.storage_account, section.storage_account_key) ) =>
               passed = <<section.storage_account, section.storage_account_key>>
        /\ (account # "None" /\ key # "None") => passed = <<account, key>>
        /\ (account = "None" \/ key = "None") =>
             IF Provides(env.AZURE_STORAGE_ACCOUNT,
                         env.AZURE_STORAGE_ACCOUNT_STORAGE_ACCOUNT_KEY)
               THEN passed = <<"env", "env">>
               ELSE passed = <<"None", "None">>
        /\ probe.account_name = "env" <=> probe.account_key = "env"

\* a client was constructed with the account of its arguments and the key of
\* the configuration section
C15_Witness ==
  /\ Constructed
  /\ probe.storage_account = "arg"
  /\ probe.storage_account_key = "None"
  /\ probe.config.storage_account = "cfg"
  /\ probe.account_name = "arg"
  /\ probe.account_key = "cfg"

\* C16: open('w') gives a writer with its own session on the target path and
\* touches no blob; open('r') returns a reader when the blob of the path
\* exists and raises FileNotFoundException when it does not; open in any other
\* mode raises ValueError; and open without a writer changes neither the
\* service nor the sessions.
C16_OpenByMode ==
  [][/\ \A i \in 1..MaxSessions :
          (sessions[i].state = "none" /\ sessions'[i].state = "open") =>
            /\ sessions'[i].path \in TargetPaths
            /\ i \in DOMAIN tmp_files'
            /\ blobs' = blobs
     /\ (Finished("open") /\ call'.path2 = <<"r">>) =>
          IF Present(call'.path, containers, blobs)
            THEN call'.exc = "" /\ call'.ret = "reader"
            ELSE call'.exc = "FileNotFoundException"
     /\ (Finished("open") /\ call'.path2 \notin {<<"r">>, <<"w">>}) =>
          call'.exc = "ValueError"
     /\ Finished("open") =>
          /\ blobs' = blobs
          /\ sessions' = sessions
          /\ tmp_files' = tmp_files]_vars

\* C17: for a path that is not empty once one leading and one trailing '/'
\* are stripped, the codec raises nothing, the container is the first segment
\* of the stripped path and the blob-name the rest of it behind the first '/':
\* a/b/c and /a/b/c/ give (a, b/c), a/ gives (a, ''); for the empty path the
\* codec raises the adapter's invalid-path error.
C17_Codec ==
  (probe.fn = "_path_to_container_and_blob" /\ probe.pc = "done") =>
    LET path == probe.path
        lead == IF path # <<>> /\ path[1] = "/" THEN Tail(path) ELSE path
        stripped == IF lead # <<>> /\ lead[Len(lead)] = "/"
                      THEN SubSeq(lead, 1, Len(lead) - 1) ELSE lead
    IN  /\ path = <<>> => probe.exc = "InvalidPathError"
        /\ stripped # <<>> =>
             /\ probe.exc = ""
             /\ \A i \in 1..Len(probe.container) : probe.container[i] # "/"
             /\ \/ stripped = probe.container /\ probe.blob_name = <<>>
                \/ stripped = probe.container \o <<"/">> \o probe.blob_name
        /\ path \in { <<"a", "/", "b", "/", "c">>,
                      <<"/", "a", "/", "b", "/", "c", "/">> } =>
             probe.container = a /\ probe.blob_name = <<"b", "/", "c">>
        /\ path = <<"a", "/">> => probe.container = a /\ probe.blob_name = <<>>

\* C18: every step of a move of an existing source blob, to its end or to the
\* wait for a copy in progress, leaves the content the source had at the
\* source or at the destination; the source is gone after the step only if
\* the destination holds that content.
C18_MoveKeepsContent ==
  [][( /\ call'.seq # call.seq
       /\ call'.op = "move"
       /\ Resolvable(call'.path)
       /\ Resolvable(call'.path2)
       /\ Present(call'.path, containers, blobs) ) =>
         LET src == KeyOf(call'.path)
             dst == KeyOf(call'.path2)
         IN  \/ src \in DOMAIN blobs' /\ blobs'[src] = blobs[src]
             \/ dst \in DOMAIN blobs' /\ blobs'[dst] = blobs[src]]_vars

C20_ReadLatchesEOF ==
  [][(reader.state = "open" /\ reader'.reads # reader.reads) =>
       /\ (reader.finished \/ reader'.got = <<>>) =>
            reader'.ret = <<>> /\ reader'.finished
       /\ (~reader.finished /\ reader'.got # <<>>) =>
            reader'.ret = reader'.got /\ ~reader'.finished]_vars

\* a read after the end of the stream to which the handle returned bytes
C20_Witness ==
  /\ reader.state = "open"
  /\ reader.finished
  /\ reader.got # <<>>
  /\ reader.ret = <<>>

\* a step in which one of close, __exit__, __del__ and the end of the iteration
\* closes the reader or the handle under it
Closing ==
  /\ reader.state = "open"
  /\ reader'.key_closes # reader.key_closes \/ reader'.last # reader.last

\* C21: close, __exit__, __del__ and the end of the iteration each leave the
\* reader closed and the handle under it released; and when the reader was
\* closed before, they do not close the handle under it again, and close,
\* __exit__ and __del__ change nothing of what the reader holds.
C21_CloseReleasesOnce ==
  [][Closing =>
       /\ reader'.closed
       /\ reader'.key_closes >= 1
       /\ reader.closed =>
            /\ reader'.key_closes = reader.key_closes
            /\ reader'.last # "__iter__" =>
                 /\ reader'.buffer = reader.buffer
                 /\ reader'.out = reader.out
                 /\ reader'.pc = reader.pc
                 /\ reader'.finished = reader.finished]_vars

TypeOK ==
  /\ containers \subseteq ProvisionedContainers
  /\ \A k \in DOMAIN blobs : blobs[k] \in Files
  /\ DOMAIN pending \subseteq DOMAIN blobs
  /\ \A i \in 1..MaxSessions : (i \in DOMAIN tmp_files) <=> (sessions[i].state \in {"open", "failed"})

====
